---- MODULE Spec2Model ----
(***************************************************************************)
(* FX pipeline: extraction (scripts/extract.py), cross-pair derivation and *)
(* year-to-date metrics (scripts/transform.py), warehouse loading          *)
(* (scripts/load.py) and the orchestration of the three (run_pipeline.py). *)
(*                                                                         *)
(* Numbers.  A float rounded to 8 decimals is modelled as the integer      *)
(* number of grid steps of size 1/RateScale; a raw EUR rate r is the       *)
(* integer r * RateUnit; a percentage rounded to 4 decimals is an integer  *)
(* number of steps of size 1/PctScale.  Arithmetic is exact (binary        *)
(* floating-point representation error is not modelled) and round() is     *)
(* round-half-to-even.  NaN and None are the out-of-range integers below,  *)
(* NaT is the out-of-range date 0.  Dates are the integers yyyymmdd.       *)
(***************************************************************************)
EXTENDS Integers, Sequences, FiniteSets, TLC

VARIABLES
    config_ok,      \* DB_PASSWORD and START_DATE are set (validate_config passes)
    raw_csv,        \* rows of the extract stage's CSV, the transform stage's input
    t_pc,           \* position of transform.main
    t_connection,   \* transform.main's `connection` is not None
    df_raw,         \* transform.main's df_raw
    df_cross,       \* transform.main's df_cross
    df_ytd,         \* transform.main's df_ytd
    cross_file,     \* content of the cross-pair CSV (output_cross_path)
    ytd_file,       \* content of the YTD CSV (output_ytd_path)
    cross_written,  \* the cross-pair CSV was created or modified in this run
    ytd_written,    \* the YTD CSV was created or modified in this run
    audit_log,      \* rows of pipeline_execution_log: <<step, status>>
    audit_attempts, \* every call of log_execution so far: <<step, status>>
    t_error,        \* the exception caught by transform.main ("" when none)
    t_exit,         \* value returned by transform.main (NoExit while running)
    fact_fx_rates_daily,  \* rows of the table fact_fx_rates_daily
    load_df,        \* the cross-pair rows handed to load_daily_rates
    db_clock,       \* CURRENT_TIMESTAMP of the database
    loads,          \* calls of load_daily_rates so far
    loads_returned, \* calls of load_daily_rates that returned normally
    rows_daily,     \* value returned by the last call (None when it raised)
    fact_fx_rates_ytd,   \* rows of the table fact_fx_rates_ytd
    load_ytd_df,    \* the YTD rows handed to load_ytd_metrics
    ytd_loads,      \* calls of load_ytd_metrics so far
    ytd_loads_returned,  \* calls of load_ytd_metrics that returned normally
    rows_ytd,       \* value returned by the last call (None when it raised)
    e_pc,           \* position of extract.main
    e_connection,   \* extract.main's `connection` is not None
    e_df,           \* extract.main's df
    e_error,        \* the exception caught by extract.main ("" when none)
    e_exit,         \* value returned by extract.main (NoExit while running)
    l_pc,           \* position of load.main
    l_connection,   \* load.main's `connection` is not None
    l_error,        \* the exception caught by load.main ("" when none)
    l_exit,         \* value returned by load.main (NoExit while running)
    p_step,         \* run_pipeline.main: index in `steps` of the current step
    p_pc,           \* position of run_pipeline.main
    p_started,      \* the scripts run_step has started, in order
    p_exit          \* exit status of run_pipeline (NoExit while running)

tvars == <<config_ok, raw_csv, t_pc, t_connection, df_raw, df_cross, df_ytd,
           cross_file, ytd_file, cross_written, ytd_written, audit_log,
           audit_attempts, t_error, t_exit>>

lvars == <<fact_fx_rates_daily, load_df, db_clock, loads, loads_returned,
           rows_daily>>

yvars == <<fact_fx_rates_ytd, load_ytd_df, ytd_loads, ytd_loads_returned,
           rows_ytd>>

evars == <<e_pc, e_connection, e_df, e_error, e_exit>>

mvars == <<l_pc, l_connection, l_error, l_exit>>

pvars == <<p_step, p_pc, p_started, p_exit>>

\* what transform.main leaves alone
outside_transform == <<lvars, yvars, evars, mvars, pvars>>

vars == <<tvars, lvars, yvars, evars, mvars, pvars>>

----------------------------------------------------------------------------
(* Values *)

NaN == -99999999
None == -88888888
NaT == 0
NoExit == -1

RateScale == 10
PctScale == 10
RateUnit == 2

CURRENCIES == <<"NOK", "EUR", "SEK", "PLN", "RON", "DKK", "CZK">>

\* sorted(CURRENCIES): the order in which groupby yields string keys
SortedCurrencies == <<"CZK", "DKK", "EUR", "NOK", "PLN", "RON", "SEK">>

Range(s) == {s[i] : i \in DOMAIN s}

Abs(x) == IF x < 0 THEN -x ELSE x

\* round(n / d) to the nearest integer, ties to the even one (d > 0)
RoundDiv(n, d) ==
    LET q == n \div d
        r == n % d
    IN  IF 2 * r < d THEN q
        ELSE IF 2 * r > d THEN q + 1
        ELSE IF q % 2 = 0 THEN q ELSE q + 1

Year(d) == d \div 10000
year_start(d) == Year(d) * 10000 + 101
IsDec31(d) == d % 10000 = 1231

RECURSIVE Flatten(_)
Flatten(ss) == IF ss = <<>> THEN <<>> ELSE Head(ss) \o Flatten(Tail(ss))

RECURSIVE SortAsc(_)
SortAsc(S) ==
    IF S = {} THEN <<>>
    ELSE LET m == CHOOSE x \in S : \A y \in S : x <= y
         IN  <<m>> \o SortAsc(S \ {m})

----------------------------------------------------------------------------
(* Inputs: the extract CSV.  Slot i may hold one row for its (date, quote)  *)
(* with one of the slot's rates, or no row.                                 *)

RawSlots == <<
    [rate_date |-> 20231231, quote_currency |-> "NOK", rates |-> {1, 23}],
    [rate_date |-> 20240101, quote_currency |-> "NOK", rates |-> {0, 1, 23, NaN}],
    [rate_date |-> 20240101, quote_currency |-> "SEK", rates |-> {1, 23}],
    [rate_date |-> 20240102, quote_currency |-> "NOK", rates |-> {23}],
    [rate_date |-> 20240102, quote_currency |-> "SEK", rates |-> {23}],
    [rate_date |-> 20241231, quote_currency |-> "NOK", rates |-> {1, 23}],
    [rate_date |-> 20241231, quote_currency |-> "USD", rates |-> {23}],
    [rate_date |-> NaT,      quote_currency |-> "NOK", rates |-> {23}] >>

Absent == -1

RawChoices == {f \in [DOMAIN RawSlots -> {Absent, NaN, 0, 1, 23}] :
                 \A i \in DOMAIN RawSlots :
                    f[i] = Absent \/ f[i] \in RawSlots[i].rates}

RawRow(i, r) == [rate_date |-> RawSlots[i].rate_date,
                 quote_currency |-> RawSlots[i].quote_currency,
                 exchange_rate |-> r]

RawCsvOf(f) ==
    Flatten([i \in DOMAIN RawSlots |->
                IF f[i] = Absent THEN <<>> ELSE <<RawRow(i, f[i])>>])

----------------------------------------------------------------------------
(* calculate_cross_pairs *)

\* keys of df.groupby('rate_date'): the distinct dates, NaT dropped, ascending
GroupDates(df) == SortAsc({df[i].rate_date : i \in DOMAIN df} \ {NaT})

\* rates_dict of one date: EUR = 1.0, then every row of the group in order
\* (a later row of the same currency overwrites an earlier one)
RatesDictKeys(df, d) ==
    {"EUR"} \cup {df[i].quote_currency :
                    i \in {j \in DOMAIN df : df[j].rate_date = d}}

RatesDict(df, d) ==
    [c \in RatesDictKeys(df, d) |->
        LET idx == {i \in DOMAIN df :
                      df[i].rate_date = d /\ df[i].quote_currency = c}
        IN  IF idx = {} THEN RateUnit
            ELSE df[CHOOSE i \in idx : \A j \in idx : j <= i].exchange_rate]

\* the (base, quote) iterations of the nested loops, in loop order
LoopPairs ==
    [i \in 1..(Len(CURRENCIES) * Len(CURRENCIES)) |->
        [base  |-> CURRENCIES[((i - 1) \div Len(CURRENCIES)) + 1],
         quote |-> CURRENCIES[((i - 1) % Len(CURRENCIES)) + 1]]]

PairEmitted_no_self_check(rates_dict, p) ==
    /\ p.base \in DOMAIN rates_dict
    /\ p.quote \in DOMAIN rates_dict

PairEmitted(rates_dict, p) ==
    /\ p.base # p.quote
    /\ p.base \in DOMAIN rates_dict
    /\ p.quote \in DOMAIN rates_dict

\* rates_dict[quote] / rates_dict[base] on Python floats raises
\* ZeroDivisionError when the denominator is 0
DivisionRaises(rates_dict, p) == rates_dict[p.base] = 0

cross_rate_inverted(rates_dict, p) ==
    IF rates_dict[p.base] = NaN \/ rates_dict[p.quote] = NaN THEN NaN
    ELSE IF rates_dict[p.quote] = 0 THEN NaN
    ELSE RoundDiv(RateScale * rates_dict[p.base], rates_dict[p.quote])

cross_rate_eur_denominator(rates_dict, p) ==
    IF rates_dict[p.base] = NaN \/ rates_dict[p.quote] = NaN THEN NaN
    ELSE RoundDiv(RateScale * rates_dict[p.quote], rates_dict["EUR"])

\* round(rates_dict[quote] / rates_dict[base], 8)
cross_rate(rates_dict, p) ==
    IF rates_dict[p.base] = NaN \/ rates_dict[p.quote] = NaN THEN NaN
    ELSE RoundDiv(RateScale * rates_dict[p.quote], rates_dict[p.base])

DateRows(df, d) ==
    LET rates_dict == RatesDict(df, d)
        emitted == SelectSeq(LoopPairs, LAMBDA p : PairEmitted(rates_dict, p))
    IN  [i \in DOMAIN emitted |->
            [rate_date |-> d,
             base_currency |-> emitted[i].base,
             quote_currency |-> emitted[i].quote,
             exchange_rate |-> IF DivisionRaises(rates_dict, emitted[i])
                               THEN NaN
                               ELSE cross_rate(rates_dict, emitted[i])]]

DateRaises(df, d) ==
    LET rates_dict == RatesDict(df, d)
    IN  \E i \in DOMAIN LoopPairs :
            /\ PairEmitted(rates_dict, LoopPairs[i])
            /\ DivisionRaises(rates_dict, LoopPairs[i])

\* result of calculate_cross_pairs(df): the rows of df_cross, or an exception
\* (ZeroDivisionError in the loop; KeyError 'base_currency' at the statistics
\* when all_rates is empty and pd.DataFrame([]) has no columns)
calculate_cross_pairs(df) ==
    LET dates == GroupDates(df)
        all_rates == Flatten([k \in DOMAIN dates |-> DateRows(df, dates[k])])
        division == \E k \in DOMAIN dates : DateRaises(df, dates[k])
        raised == division \/ all_rates = <<>>
    IN  [raised |-> raised,
         error |-> IF division THEN "ZeroDivisionError"
                   ELSE IF raised THEN "KeyError" ELSE "",
         rows |-> IF raised THEN <<>> ELSE all_rates]

----------------------------------------------------------------------------
(* calculate_ytd_metrics *)

RECURSIVE Sum(_)
Sum(s) == IF s = <<>> THEN 0 ELSE Head(s) + Sum(Tail(s))

SetMin(S) == CHOOSE x \in S : \A y \in S : x <= y
SetMax(S) == CHOOSE x \in S : \A y \in S : x >= y

HasNaN(rates) == \E i \in DOMAIN rates : rates[i] = NaN

\* keys of df.groupby(['base_currency', 'quote_currency']), in sorted order
GroupKeys(df) ==
    SelectSeq(
        [i \in 1..(Len(SortedCurrencies) * Len(SortedCurrencies)) |->
            [base  |-> SortedCurrencies[((i - 1) \div Len(SortedCurrencies)) + 1],
             quote |-> SortedCurrencies[((i - 1) % Len(SortedCurrencies)) + 1]]],
        LAMBDA k : \E i \in DOMAIN df :
                      df[i].base_currency = k.base /\ df[i].quote_currency = k.quote)

\* the rows of one pair after sort_values('rate_date'); rows of equal date keep
\* their input order
RECURSIVE SortByDate(_, _)
SortByDate(df, idx) ==
    IF idx = {} THEN <<>>
    ELSE LET m == CHOOSE i \in idx : \A j \in idx :
                     \/ df[i].rate_date < df[j].rate_date
                     \/ (df[i].rate_date = df[j].rate_date /\ i <= j)
         IN  <<df[m]>> \o SortByDate(df, idx \ {m})

Group(df, k) ==
    SortByDate(df, {i \in DOMAIN df :
                      df[i].base_currency = k.base /\ df[i].quote_currency = k.quote})

ytd_data_no_year_reset(group, current_date) ==
    SelectSeq(group, LAMBDA r : r.rate_date <= current_date)

ytd_data_before_current(group, current_date) ==
    SelectSeq(group, LAMBDA r : /\ r.rate_date >= year_start(current_date)
                                /\ r.rate_date < current_date)

\* ytd_data: group[(rate_date >= year_start) & (rate_date <= current_date)]
ytd_data(group, current_date) ==
    SelectSeq(group, LAMBDA r : /\ r.rate_date >= year_start(current_date)
                                /\ r.rate_date <= current_date)

Rates(rows) == [i \in DOMAIN rows |-> rows[i].exchange_rate]

\* sum of (N*x - sum x)^2 = N^2 * sum of (x - mean)^2
SqDev(rates) ==
    LET n == Len(rates)
        t == Sum(rates)
    IN  Sum([i \in DOMAIN rates |-> (n * rates[i] - t) * (n * rates[i] - t)])

\* rates.mean()
ytd_avg(rates) ==
    IF HasNaN(rates) THEN NaN ELSE RoundDiv(Sum(rates), Len(rates))

ytd_min(rates) == IF HasNaN(rates) THEN NaN ELSE SetMin(Range(rates))
ytd_max(rates) == IF HasNaN(rates) THEN NaN ELSE SetMax(Range(rates))

\* rates.var() if len(rates) > 1 else 0: numpy's ndarray.var, ddof = 0;
\* TRUE when the value is falsy (exactly 0)
VarIsZero(rates) ==
    Len(rates) <= 1 \/ (~HasNaN(rates) /\ SqDev(rates) = 0)

\* round(ytd_var, 8) if ytd_var else None
ytd_variance(rates) ==
    IF VarIsZero(rates) THEN None
    ELSE IF HasNaN(rates) THEN NaN
    ELSE LET n == Len(rates)
         IN  RoundDiv(SqDev(rates), n * n * n * RateScale)

\* round(ytd_std, 8) if ytd_std else None: the square root of the variance
ytd_std_dev(rates) ==
    IF VarIsZero(rates) THEN None
    ELSE IF HasNaN(rates) THEN NaN
    ELSE LET n == Len(rates)
             q == SqDev(rates)
             c == n * n * n
         IN  CHOOSE k \in 0..(SetMax(Range(rates)) - SetMin(Range(rates)) + 1) :
                /\ (k = 0 \/ (2 * k - 1) * (2 * k - 1) * c <= 4 * q)
                /\ 4 * q < (2 * k + 1) * (2 * k + 1) * c

ytd_change_pct_unguarded(rates) ==
    LET ytd_first == rates[1]
        ytd_last == rates[Len(rates)]
    IN  IF ytd_first = 0 \/ ytd_first = NaN \/ ytd_last = NaN THEN NaN
        ELSE RoundDiv(100 * PctScale * (ytd_last - ytd_first), ytd_first)

\* ((ytd_last - ytd_first) / ytd_first) * 100 if ytd_first != 0 else 0,
\* rounded to 4 decimals
ytd_change_pct(rates) ==
    LET ytd_first == rates[1]
        ytd_last == rates[Len(rates)]
    IN  IF ytd_first = 0 THEN 0
        ELSE IF ytd_first = NaN \/ ytd_last = NaN THEN NaN
        ELSE RoundDiv(100 * PctScale * (ytd_last - ytd_first), ytd_first)

YtdRecords_needs_two_rates(group, row) ==
    LET rates == Rates(ytd_data(group, row.rate_date))
    IN  IF Len(rates) > 1
        THEN << [rate_date |-> row.rate_date,
                 base_currency |-> row.base_currency,
                 quote_currency |-> row.quote_currency,
                 ytd_avg_rate |-> ytd_avg(rates),
                 ytd_min_rate |-> ytd_min(rates),
                 ytd_max_rate |-> ytd_max(rates),
                 ytd_first_rate |-> rates[1],
                 ytd_last_rate |-> rates[Len(rates)],
                 ytd_days_count |-> Len(rates),
                 ytd_variance |-> ytd_variance(rates),
                 ytd_std_dev |-> ytd_std_dev(rates),
                 ytd_change_pct |-> ytd_change_pct(rates)] >>
        ELSE <<>>

\* the record appended for one row of a group; none when ytd_data is empty
YtdRecords(group, row) ==
    LET rates == Rates(ytd_data(group, row.rate_date))
    IN  IF Len(rates) > 0
        THEN << [rate_date |-> row.rate_date,
                 base_currency |-> row.base_currency,
                 quote_currency |-> row.quote_currency,
                 ytd_avg_rate |-> ytd_avg(rates),
                 ytd_min_rate |-> ytd_min(rates),
                 ytd_max_rate |-> ytd_max(rates),
                 ytd_first_rate |-> rates[1],
                 ytd_last_rate |-> rates[Len(rates)],
                 ytd_days_count |-> Len(rates),
                 ytd_variance |-> ytd_variance(rates),
                 ytd_std_dev |-> ytd_std_dev(rates),
                 ytd_change_pct |-> ytd_change_pct(rates)] >>
        ELSE <<>>

calculate_ytd_metrics(df) ==
    LET keys == GroupKeys(df)
    IN  Flatten([g \in DOMAIN keys |->
            LET group == Group(df, keys[g])
            IN  Flatten([i \in DOMAIN group |-> YtdRecords(group, group[i])])])

----------------------------------------------------------------------------
(* log_execution: the INSERT may fail; the failure is caught and logged *)

log_execution(log, step, status, write_ok) ==
    IF write_ok THEN Append(log, <<step, status>>) ELSE log

\* whether log_execution lets the exception of a failed INSERT escape to its
\* caller: its body is one try whose except Exception only logs a warning
log_execution_reraises(write_ok) == ~write_ok

log_execution_raises(write_ok) == FALSE

\* load_extracted_data: read_csv, then rate_date parsed; the min()/max() of the
\* log line compares the dates of an object column in which NaT was replaced
\* by a float, which raises TypeError when a real date is present too
HasNaT(csv) == \E i \in DOMAIN csv : csv[i].rate_date = NaT
HasDate(csv) == \E i \in DOMAIN csv : csv[i].rate_date # NaT
PeriodLogMayRaise(csv) == HasNaT(csv) /\ HasDate(csv)

----------------------------------------------------------------------------
(* transform.main *)

\* extract.main, load.main and run_pipeline.main have not been started
OtherStagesIdle ==
    /\ e_pc = "idle"
    /\ e_connection = FALSE
    /\ e_df = <<>>
    /\ e_error = ""
    /\ e_exit = NoExit
    /\ l_pc = "idle"
    /\ l_connection = FALSE
    /\ l_error = ""
    /\ l_exit = NoExit
    /\ p_step = 0
    /\ p_pc = "idle"
    /\ p_started = <<>>
    /\ p_exit = NoExit

Init ==
    /\ config_ok \in BOOLEAN
    /\ raw_csv \in {RawCsvOf(f) : f \in RawChoices}
    /\ t_pc = "validate"
    /\ t_connection = FALSE
    /\ df_raw = <<>>
    /\ df_cross = <<>>
    /\ df_ytd = <<>>
    /\ cross_file = <<>>
    /\ ytd_file = <<>>
    /\ cross_written = FALSE
    /\ ytd_written = FALSE
    /\ audit_log = <<>>
    /\ audit_attempts = <<>>
    /\ t_error = ""
    /\ t_exit = NoExit
    /\ OtherStagesIdle
    /\ fact_fx_rates_daily = {}
    /\ load_df = <<>>
    /\ db_clock = 0
    /\ loads = 0
    /\ loads_returned = 0
    /\ rows_daily = None
    /\ fact_fx_rates_ytd = {}
    /\ load_ytd_df = <<>>
    /\ ytd_loads = 0
    /\ ytd_loads_returned = 0
    /\ rows_ytd = None

\* validate_config()
Transform_validate_config ==
    /\ UNCHANGED outside_transform
    /\ t_pc = "validate"
    /\ t_pc' = IF config_ok THEN "connect" ELSE "except"
    /\ t_error' = IF config_ok THEN t_error ELSE "ValueError"
    /\ UNCHANGED <<config_ok, raw_csv, t_connection, df_raw, df_cross, df_ytd,
                   cross_file, ytd_file, cross_written, ytd_written, audit_log,
                   audit_attempts, t_exit>>

\* connection = get_db_connection(); log_execution(connection, 'transform', 'running')
\* inside a try of their own: a failure to connect is only logged
Transform_connect ==
    /\ UNCHANGED outside_transform
    /\ t_pc = "connect"
    /\ \E connect_ok \in BOOLEAN, write_ok \in BOOLEAN :
          /\ t_connection' = connect_ok
          /\ audit_log' = IF connect_ok
                          THEN log_execution(audit_log, "transform", "running", write_ok)
                          ELSE audit_log
          /\ audit_attempts' = IF connect_ok
                               THEN Append(audit_attempts, <<"transform", "running">>)
                               ELSE audit_attempts
    /\ t_pc' = "load"
    /\ UNCHANGED <<config_ok, raw_csv, df_raw, df_cross, df_ytd, cross_file,
                   ytd_file, cross_written, ytd_written, t_error, t_exit>>

\* df_raw = load_extracted_data(input_path)
Transform_load_extracted_data ==
    /\ UNCHANGED outside_transform
    /\ t_pc = "load"
    /\ \E read_ok \in BOOLEAN, log_raises \in BOOLEAN :
          IF read_ok /\ ~(log_raises /\ PeriodLogMayRaise(raw_csv))
          THEN df_raw' = raw_csv /\ t_pc' = "cross" /\ t_error' = t_error
          ELSE /\ df_raw' = df_raw
               /\ t_pc' = "except"
               /\ t_error' = IF read_ok THEN "TypeError" ELSE "OSError"
    /\ UNCHANGED <<config_ok, raw_csv, t_connection, df_cross, df_ytd, cross_file,
                   ytd_file, cross_written, ytd_written, audit_log,
                   audit_attempts, t_exit>>

\* df_cross, duration_cross = calculate_cross_pairs(df_raw)
Transform_calculate_cross_pairs ==
    /\ UNCHANGED outside_transform
    /\ t_pc = "cross"
    /\ LET result == calculate_cross_pairs(df_raw)
       IN  IF result.raised
           THEN df_cross' = df_cross /\ t_pc' = "except" /\ t_error' = result.error
           ELSE df_cross' = result.rows /\ t_pc' = "save_cross" /\ t_error' = t_error
    /\ UNCHANGED <<config_ok, raw_csv, t_connection, df_raw, df_ytd, cross_file,
                   ytd_file, cross_written, ytd_written, audit_log,
                   audit_attempts, t_exit>>

\* df.to_csv(output_path, index=False): the file is opened for writing, which
\* truncates it, and the rows are written; the write can fail before the file
\* is opened ("not_opened") or after it ("partial", rows written so far remain)
SaveOutcomes == {"written", "not_opened", "partial"}

FileAfterSave(file, df, outcome) ==
    IF outcome = "written" THEN df
    ELSE IF outcome = "partial" THEN SubSeq(df, 1, Len(df) - 1)
    ELSE file

\* save_to_csv(df_cross, output_cross_path, "Cross-pairs")
Transform_save_cross ==
    /\ UNCHANGED outside_transform
    /\ t_pc = "save_cross"
    /\ \E outcome \in SaveOutcomes :
          /\ cross_file' = FileAfterSave(cross_file, df_cross, outcome)
          /\ cross_written' = (outcome # "not_opened")
          /\ t_pc' = IF outcome = "written" THEN "ytd" ELSE "except"
          /\ t_error' = IF outcome = "written" THEN t_error ELSE "OSError"
    /\ UNCHANGED <<config_ok, raw_csv, t_connection, df_raw, df_cross, df_ytd,
                   ytd_file, ytd_written, audit_log, audit_attempts, t_exit>>

\* df_ytd, duration_ytd = calculate_ytd_metrics(df_cross)
Transform_calculate_ytd_metrics ==
    /\ UNCHANGED outside_transform
    /\ t_pc = "ytd"
    /\ df_ytd' = calculate_ytd_metrics(df_cross)
    /\ t_pc' = "save_ytd"
    /\ UNCHANGED <<config_ok, raw_csv, t_connection, df_raw, df_cross, cross_file,
                   ytd_file, cross_written, ytd_written, audit_log,
                   audit_attempts, t_error, t_exit>>

\* save_to_csv(df_ytd, output_ytd_path, "Métriques YTD")
Transform_save_ytd ==
    /\ UNCHANGED outside_transform
    /\ t_pc = "save_ytd"
    /\ \E outcome \in SaveOutcomes :
          /\ ytd_file' = FileAfterSave(ytd_file, df_ytd, outcome)
          /\ ytd_written' = (outcome # "not_opened")
          /\ t_pc' = IF outcome = "written" THEN "success" ELSE "except"
          /\ t_error' = IF outcome = "written" THEN t_error ELSE "OSError"
    /\ UNCHANGED <<config_ok, raw_csv, t_connection, df_raw, df_cross, df_ytd,
                   cross_file, cross_written, audit_log, audit_attempts, t_exit>>

\* log success if connection; return 0; finally connection.close()
Transform_return_0 ==
    /\ UNCHANGED outside_transform
    /\ t_pc = "success"
    /\ \E write_ok \in BOOLEAN :
          IF t_connection /\ log_execution_raises(write_ok)
          THEN \* the exception leaves the try body: except Exception catches it
               /\ audit_attempts' = Append(audit_attempts, <<"transform", "success">>)
               /\ UNCHANGED <<audit_log, t_exit>>
               /\ t_error' = "DatabaseError"
               /\ t_pc' = "except"
          ELSE /\ audit_log' = IF t_connection
                               THEN log_execution(audit_log, "transform", "success", write_ok)
                               ELSE audit_log
               /\ audit_attempts' = IF t_connection
                                    THEN Append(audit_attempts, <<"transform", "success">>)
                                    ELSE audit_attempts
               /\ t_error' = t_error
               /\ t_exit' = 0
               /\ t_pc' = "done"
    /\ UNCHANGED <<config_ok, raw_csv, t_connection, df_raw, df_cross, df_ytd,
                   cross_file, ytd_file, cross_written, ytd_written>>

\* except Exception: log failed if connection; return 1; finally connection.close()
Transform_return_1 ==
    /\ UNCHANGED outside_transform
    /\ t_pc = "except"
    /\ \E write_ok \in BOOLEAN :
          /\ audit_log' = IF t_connection
                          THEN log_execution(audit_log, "transform", "failed", write_ok)
                          ELSE audit_log
          /\ audit_attempts' = IF t_connection
                               THEN Append(audit_attempts, <<"transform", "failed">>)
                               ELSE audit_attempts
    /\ t_exit' = 1
    /\ t_pc' = "done"
    /\ UNCHANGED <<config_ok, raw_csv, t_connection, df_raw, df_cross, df_ytd,
                   cross_file, ytd_file, cross_written, ytd_written, t_error>>

Next ==
    \/ Transform_validate_config
    \/ Transform_connect
    \/ Transform_load_extracted_data
    \/ Transform_calculate_cross_pairs
    \/ Transform_save_cross
    \/ Transform_calculate_ytd_metrics
    \/ Transform_save_ytd
    \/ Transform_return_0
    \/ Transform_return_1

Spec == Init /\ [][Next]_vars

----------------------------------------------------------------------------
(* load_daily_rates on the table fact_fx_rates_daily, whose unique key is     *)
(* (rate_date, base_currency, quote_currency)                                 *)

MaxLoads == 3

KeyOf(r) == <<r.rate_date, r.base_currency, r.quote_currency>>

TableKeys(table) == {KeyOf(r) : r \in table}

\* the row stored for a DataFrame row written at time now
StoredRow(row, now) ==
    [rate_date |-> row.rate_date,
     base_currency |-> row.base_currency,
     quote_currency |-> row.quote_currency,
     exchange_rate |-> row.exchange_rate,
     updated_at |-> now]

\* index of the first row of df that the plain INSERT rejects as a duplicate
\* key (of a stored row or of an earlier row of df); 0 when there is none
FirstDuplicate(table, df) ==
    LET dup == {i \in DOMAIN df :
                  \/ KeyOf(df[i]) \in TableKeys(table)
                  \/ \E j \in 1..(i - 1) : KeyOf(df[j]) = KeyOf(df[i])}
    IN  IF dup = {} THEN 0 ELSE CHOOSE i \in dup : \A j \in dup : i <= j

\* df.to_sql(..., if_exists='append'): plain INSERT of the rows
InsertRows(table, df, now) ==
    table \cup {StoredRow(df[i], now) : i \in DOMAIN df}

upsert_without_update(table, row, now) == table \cup {StoredRow(row, now)}

\* INSERT ... ON DUPLICATE KEY UPDATE exchange_rate, updated_at
upsert(table, row, now) ==
    {r \in table : KeyOf(r) # KeyOf(row)} \cup {StoredRow(row, now)}

\* the for loop over df.iterrows() executing the upsert for rows 1..n
RECURSIVE UpsertRows(_, _, _, _)
UpsertRows(table, df, n, now) ==
    IF n = 0 THEN table
    ELSE upsert(UpsertRows(table, df, n - 1, now), df[n], now)

\* One call of load_daily_rates(load_df, engine, connection).
\*   db_ok          the direct INSERT meets no error other than a duplicate key
\*   transactional  a failed statement or an uncommitted transaction leaves no
\*                  row behind (otherwise the rows written before the failure stay)
\*   fail_at        the execute of the fallback loop that raises (0: none)
load_daily_rates(db_ok, transactional, fail_at) ==
    LET now == db_clock + 1
        first_dup == FirstDuplicate(fact_fx_rates_daily, load_df)
        direct_ok == db_ok /\ first_dup = 0
        after_direct ==
            IF direct_ok THEN InsertRows(fact_fx_rates_daily, load_df, now)
            ELSE IF transactional \/ ~db_ok THEN fact_fx_rates_daily
            ELSE InsertRows(fact_fx_rates_daily,
                            SubSeq(load_df, 1, first_dup - 1), now)
        fallback_ok == fail_at = 0
        after_fallback ==
            IF fallback_ok THEN UpsertRows(after_direct, load_df, Len(load_df), now)
            ELSE IF transactional THEN after_direct
            ELSE UpsertRows(after_direct, load_df, fail_at - 1, now)
    IN  /\ fact_fx_rates_daily' = IF direct_ok THEN after_direct ELSE after_fallback
        /\ rows_daily' = IF direct_ok \/ fallback_ok THEN Len(load_df) ELSE None
        /\ loads_returned' = IF direct_ok \/ fallback_ok
                             THEN loads_returned + 1 ELSE loads_returned
        /\ db_clock' = now

\* the rows of the cross-pair CSV and of the table before the first load
LoadKeys == <<
    [rate_date |-> 20240101, base_currency |-> "EUR", quote_currency |-> "NOK"],
    [rate_date |-> 20240101, base_currency |-> "NOK", quote_currency |-> "EUR"],
    [rate_date |-> 20240102, base_currency |-> "EUR", quote_currency |-> "NOK"] >>

LoadRates == {5, 115}

LoadRow(k, rate) ==
    [rate_date |-> LoadKeys[k].rate_date,
     base_currency |-> LoadKeys[k].base_currency,
     quote_currency |-> LoadKeys[k].quote_currency,
     exchange_rate |-> rate]

LoadChoices == [DOMAIN LoadKeys -> LoadRates \cup {Absent}]

CsvOfChoice(f) ==
    Flatten([k \in DOMAIN LoadKeys |->
                IF f[k] = Absent THEN <<>> ELSE <<LoadRow(k, f[k])>>])

TableOfChoice(f) ==
    {StoredRow(LoadRow(k, f[k]), 0) : k \in {x \in DOMAIN LoadKeys : f[x] # Absent}}

LoadInit ==
    /\ config_ok = TRUE
    /\ raw_csv = <<>>
    /\ t_pc = "done"
    /\ t_connection = FALSE
    /\ df_raw = <<>>
    /\ df_cross = <<>>
    /\ df_ytd = <<>>
    /\ cross_file = <<>>
    /\ ytd_file = <<>>
    /\ cross_written = FALSE
    /\ ytd_written = FALSE
    /\ audit_log = <<>>
    /\ audit_attempts = <<>>
    /\ t_error = ""
    /\ t_exit = NoExit
    /\ OtherStagesIdle
    /\ fact_fx_rates_daily \in {TableOfChoice(f) : f \in LoadChoices}
    /\ load_df \in {CsvOfChoice(f) : f \in LoadChoices}
    /\ db_clock = 0
    /\ loads = 0
    /\ loads_returned = 0
    /\ rows_daily = None
    /\ fact_fx_rates_ytd = {}
    /\ load_ytd_df = <<>>
    /\ ytd_loads = 0
    /\ ytd_loads_returned = 0
    /\ rows_ytd = None

\* the load stage is run (again) on the same cross-pair CSV
Load_daily_rates ==
    /\ loads < MaxLoads
    /\ loads' = loads + 1
    /\ \E db_ok \in BOOLEAN, transactional \in BOOLEAN, fail_at \in 0..Len(load_df) :
          load_daily_rates(db_ok, transactional, fail_at)
    /\ UNCHANGED load_df
    /\ UNCHANGED <<tvars, yvars, evars, mvars, pvars>>

LoadNext == Load_daily_rates

SpecLoad == LoadInit /\ [][LoadNext]_vars

----------------------------------------------------------------------------
(* load_ytd_metrics on the table fact_fx_rates_ytd, whose unique key is       *)
(* (rate_date, base_currency, quote_currency)                                 *)

\* dates = df['rate_date'].unique(), in order of first appearance
RECURSIVE UniqueDates(_)
UniqueDates(df) ==
    IF df = <<>> THEN <<>>
    ELSE LET init == UniqueDates(SubSeq(df, 1, Len(df) - 1))
             d == df[Len(df)].rate_date
         IN  IF d \in Range(init) THEN init ELSE Append(init, d)

delete_whole_table(table, d) == {}

\* DELETE FROM fact_fx_rates_ytd WHERE rate_date = :date
delete_date(table, d) == {r \in table : r.rate_date # d}

\* the for loop over dates executing the DELETE for dates 1..n
RECURSIVE DeleteDates(_, _, _)
DeleteDates(table, dates, n) ==
    IF n = 0 THEN table
    ELSE delete_date(DeleteDates(table, dates, n - 1), dates[n])

insert_ytd_rows_none(table, df) == table

\* df.to_sql('fact_fx_rates_ytd', if_exists='append'): plain INSERT of the rows
insert_ytd_rows(table, df) == table \cup Range(df)

\* One call of load_ytd_metrics(load_ytd_df, engine, connection).
\*   fail_at        the DELETE that raises (0: none)
\*   db_ok          the INSERT meets no error other than a duplicate key
\*   transactional  a failed statement or an uncommitted transaction leaves no
\*                  change behind (otherwise what was written before stays)
load_ytd_metrics(fail_at, db_ok, transactional) ==
    LET dates == UniqueDates(load_ytd_df)
        deletes_ok == fail_at = 0
        after_delete ==
            IF deletes_ok THEN DeleteDates(fact_fx_rates_ytd, dates, Len(dates))
            ELSE IF transactional THEN fact_fx_rates_ytd
            ELSE DeleteDates(fact_fx_rates_ytd, dates, fail_at - 1)
        first_dup == FirstDuplicate(after_delete, load_ytd_df)
        insert_ok == deletes_ok /\ db_ok /\ first_dup = 0
        after_insert ==
            IF ~deletes_ok THEN after_delete
            ELSE IF insert_ok THEN insert_ytd_rows(after_delete, load_ytd_df)
            ELSE IF transactional \/ ~db_ok THEN after_delete
            ELSE insert_ytd_rows(after_delete, SubSeq(load_ytd_df, 1, first_dup - 1))
    IN  /\ fact_fx_rates_ytd' = after_insert
        /\ rows_ytd' = IF insert_ok THEN Len(load_ytd_df) ELSE None
        /\ ytd_loads_returned' = IF insert_ok THEN ytd_loads_returned + 1
                                  ELSE ytd_loads_returned

\* the rows of the YTD CSV and of the table before the first load; the last
\* slot repeats the key of the first one
YtdKeys == <<
    [rate_date |-> 20240101, base_currency |-> "EUR", quote_currency |-> "NOK"],
    [rate_date |-> 20240102, base_currency |-> "EUR", quote_currency |-> "NOK"],
    [rate_date |-> 20240102, base_currency |-> "NOK", quote_currency |-> "EUR"],
    [rate_date |-> 20241231, base_currency |-> "EUR", quote_currency |-> "NOK"],
    [rate_date |-> 20240101, base_currency |-> "EUR", quote_currency |-> "NOK"] >>

YtdRow(k, avg) ==
    [rate_date |-> YtdKeys[k].rate_date,
     base_currency |-> YtdKeys[k].base_currency,
     quote_currency |-> YtdKeys[k].quote_currency,
     ytd_avg_rate |-> avg,
     ytd_days_count |-> k]

\* 60 marks a row of the CSV, 115 a row stored earlier
YtdCsvChoices == [DOMAIN YtdKeys -> {60, Absent}]

YtdTableChoices ==
    {f \in [DOMAIN YtdKeys -> {60, 115, Absent}] : f[Len(YtdKeys)] = Absent}

YtdCsvOfChoice(f) ==
    Flatten([k \in DOMAIN YtdKeys |->
                IF f[k] = Absent THEN <<>> ELSE <<YtdRow(k, f[k])>>])

YtdTableOfChoice(f) ==
    {YtdRow(k, f[k]) : k \in {x \in DOMAIN YtdKeys : f[x] # Absent}}

LoadYtdInit ==
    /\ config_ok = TRUE
    /\ raw_csv = <<>>
    /\ t_pc = "done"
    /\ t_connection = FALSE
    /\ df_raw = <<>>
    /\ df_cross = <<>>
    /\ df_ytd = <<>>
    /\ cross_file = <<>>
    /\ ytd_file = <<>>
    /\ cross_written = FALSE
    /\ ytd_written = FALSE
    /\ audit_log = <<>>
    /\ audit_attempts = <<>>
    /\ t_error = ""
    /\ t_exit = NoExit
    /\ OtherStagesIdle
    /\ fact_fx_rates_daily = {}
    /\ load_df = <<>>
    /\ db_clock = 0
    /\ loads = 0
    /\ loads_returned = 0
    /\ rows_daily = None
    /\ fact_fx_rates_ytd \in {YtdTableOfChoice(f) : f \in YtdTableChoices}
    /\ load_ytd_df \in {YtdCsvOfChoice(f) : f \in YtdCsvChoices}
    /\ ytd_loads = 0
    /\ ytd_loads_returned = 0
    /\ rows_ytd = None

\* the load stage is run (again) on the same YTD CSV
Load_ytd_metrics ==
    /\ ytd_loads < MaxLoads
    /\ ytd_loads' = ytd_loads + 1
    /\ \E fail_at \in 0..Len(UniqueDates(load_ytd_df)),
          db_ok \in BOOLEAN, transactional \in BOOLEAN :
          load_ytd_metrics(fail_at, db_ok, transactional)
    /\ UNCHANGED load_ytd_df
    /\ UNCHANGED <<tvars, lvars, evars, mvars, pvars>>

LoadYtdNext == Load_ytd_metrics

SpecLoadYtd == LoadYtdInit /\ [][LoadYtdNext]_vars

----------------------------------------------------------------------------
(* extract.main *)

\* what transform.main alone writes
tdata == <<t_pc, t_connection, df_raw, df_cross, df_ytd, cross_file, ytd_file,
           cross_written, ytd_written, t_error, t_exit>>

\* the bodies the rates API may answer with, as the records built from them:
\* NOK (possibly 0) and SEK on one date, NOK on the next, each present or not
ApiChoices ==
    {f \in RawChoices :
        /\ \A i \in DOMAIN RawSlots : i \notin {2, 3, 4} => f[i] = Absent
        /\ f[2] \in {Absent, 0, 23}
        /\ f[3] \in {Absent, 23}}

extract_fx_data_swallows_errors(api_ok, records) ==
    [raised |-> FALSE, error |-> "", df |-> IF api_ok THEN records ELSE <<>>]

\* extract_fx_data: requests.get / raise_for_status / response.json() may
\* raise; pd.DataFrame([]) has no column 'rate_date', so line 102 raises
\* KeyError when the API returned no rate
extract_fx_data(api_ok, records) ==
    IF ~api_ok THEN [raised |-> TRUE, error |-> "RequestException", df |-> <<>>]
    ELSE IF records = <<>> THEN [raised |-> TRUE, error |-> "KeyError", df |-> <<>>]
    ELSE [raised |-> FALSE, error |-> "", df |-> records]

\* validate_config()
Extract_validate_config ==
    /\ e_pc = "validate"
    /\ e_pc' = IF config_ok THEN "connect" ELSE "except"
    /\ e_error' = IF config_ok THEN e_error ELSE "ValueError"
    /\ UNCHANGED <<e_connection, e_df, e_exit, config_ok, raw_csv, audit_log,
                   audit_attempts, tdata, lvars, yvars, mvars, pvars>>

\* connection = get_db_connection(); log_execution(connection, 'extract', 'running')
\* inside a try of their own: a failure to connect is only logged
Extract_connect ==
    /\ e_pc = "connect"
    /\ \E connect_ok \in BOOLEAN, write_ok \in BOOLEAN :
          /\ e_connection' = connect_ok
          /\ audit_log' = IF connect_ok
                          THEN log_execution(audit_log, "extract", "running", write_ok)
                          ELSE audit_log
          /\ audit_attempts' = IF connect_ok
                               THEN Append(audit_attempts, <<"extract", "running">>)
                               ELSE audit_attempts
    /\ e_pc' = "extract"
    /\ UNCHANGED <<e_df, e_error, e_exit, config_ok, raw_csv, tdata, lvars,
                   yvars, mvars, pvars>>

\* df, duration = extract_fx_data(start_date, end_date)
Extract_extract_fx_data ==
    /\ e_pc = "extract"
    /\ \E api_ok \in BOOLEAN, f \in ApiChoices :
          LET result == extract_fx_data(api_ok, RawCsvOf(f))
          IN  IF result.raised
              THEN e_df' = e_df /\ e_pc' = "except" /\ e_error' = result.error
              ELSE e_df' = result.df /\ e_pc' = "save" /\ e_error' = e_error
    /\ UNCHANGED <<e_connection, e_exit, config_ok, raw_csv, audit_log,
                   audit_attempts, tdata, lvars, yvars, mvars, pvars>>

\* save_to_csv(df, output_path)
Extract_save_to_csv ==
    /\ e_pc = "save"
    /\ \E outcome \in SaveOutcomes :
          /\ raw_csv' = FileAfterSave(raw_csv, e_df, outcome)
          /\ e_pc' = IF outcome = "written" THEN "success" ELSE "except"
          /\ e_error' = IF outcome = "written" THEN e_error ELSE "OSError"
    /\ UNCHANGED <<e_connection, e_df, e_exit, config_ok, audit_log,
                   audit_attempts, tdata, lvars, yvars, mvars, pvars>>

\* log success if connection; return 0; finally connection.close()
Extract_return_0 ==
    /\ e_pc = "success"
    /\ \E write_ok \in BOOLEAN :
          IF e_connection /\ log_execution_raises(write_ok)
          THEN /\ audit_attempts' = Append(audit_attempts, <<"extract", "success">>)
               /\ UNCHANGED <<audit_log, e_exit>>
               /\ e_error' = "DatabaseError"
               /\ e_pc' = "except"
          ELSE /\ audit_log' = IF e_connection
                               THEN log_execution(audit_log, "extract", "success", write_ok)
                               ELSE audit_log
               /\ audit_attempts' = IF e_connection
                                    THEN Append(audit_attempts, <<"extract", "success">>)
                                    ELSE audit_attempts
               /\ e_error' = e_error
               /\ e_exit' = 0
               /\ e_pc' = "done"
    /\ UNCHANGED <<e_connection, e_df, config_ok, raw_csv, tdata, lvars, yvars,
                   mvars, pvars>>

\* except Exception: log failed if connection; return 1; finally connection.close()
Extract_return_1 ==
    /\ e_pc = "except"
    /\ \E write_ok \in BOOLEAN :
          /\ audit_log' = IF e_connection
                          THEN log_execution(audit_log, "extract", "failed", write_ok)
                          ELSE audit_log
          /\ audit_attempts' = IF e_connection
                               THEN Append(audit_attempts, <<"extract", "failed">>)
                               ELSE audit_attempts
    /\ e_exit' = 1
    /\ e_pc' = "done"
    /\ UNCHANGED <<e_connection, e_df, e_error, config_ok, raw_csv, tdata,
                   lvars, yvars, mvars, pvars>>

----------------------------------------------------------------------------
(* load.main *)

\* engine = get_db_engine(); connection = get_db_connection();
\* log_execution(connection, 'load', 'running'): in the try of main, so a
\* failure to connect is caught by except Exception with connection = None
Load_main_validate_config ==
    /\ l_pc = "validate"
    /\ l_pc' = IF config_ok THEN "connect" ELSE "except"
    /\ l_error' = IF config_ok THEN l_error ELSE "ValueError"
    /\ UNCHANGED <<l_connection, l_exit, config_ok, raw_csv, audit_log,
                   audit_attempts, tdata, lvars, yvars, evars, pvars>>

Load_main_connect ==
    /\ l_pc = "connect"
    /\ \E connect_ok \in BOOLEAN, write_ok \in BOOLEAN :
          /\ l_connection' = connect_ok
          /\ audit_log' = IF connect_ok
                          THEN log_execution(audit_log, "load", "running", write_ok)
                          ELSE audit_log
          /\ audit_attempts' = IF connect_ok
                               THEN Append(audit_attempts, <<"load", "running">>)
                               ELSE audit_attempts
          /\ IF connect_ok /\ ~log_execution_raises(write_ok)
             THEN l_pc' = "read_cross" /\ l_error' = l_error
             ELSE /\ l_pc' = "except"
                  /\ l_error' = IF connect_ok THEN "DatabaseError"
                                ELSE "OperationalError"
    /\ UNCHANGED <<l_exit, config_ok, raw_csv, tdata, lvars, yvars, evars, pvars>>

\* load_csv_data(file_path): FileNotFoundError when the file does not exist
load_csv_data(exists, read_ok, file) ==
    IF ~exists THEN [raised |-> TRUE, error |-> "FileNotFoundError", df |-> <<>>]
    ELSE IF ~read_ok THEN [raised |-> TRUE, error |-> "OSError", df |-> <<>>]
    ELSE [raised |-> FALSE, error |-> "", df |-> file]

\* [3.1] df_cross = load_csv_data(input_cross_path)
Load_main_read_cross ==
    /\ l_pc = "read_cross"
    /\ \E read_ok \in BOOLEAN :
          LET result == load_csv_data(cross_written, read_ok, cross_file)
          IN  IF result.raised
              THEN load_df' = load_df /\ l_pc' = "except" /\ l_error' = result.error
              ELSE load_df' = result.df /\ l_pc' = "daily" /\ l_error' = l_error
    /\ UNCHANGED <<fact_fx_rates_daily, db_clock, loads, loads_returned, rows_daily>>
    /\ UNCHANGED <<l_connection, l_exit, config_ok, raw_csv, audit_log,
                   audit_attempts, tdata, yvars, evars, pvars>>

\* [3.1] rows_daily, duration_daily = load_daily_rates(df_cross, engine, connection)
Load_main_daily_rates ==
    /\ l_pc = "daily"
    /\ loads' = loads + 1
    /\ \E db_ok \in BOOLEAN, transactional \in BOOLEAN, fail_at \in {0, 1} :
          load_daily_rates(db_ok, transactional, fail_at)
    /\ l_pc' = IF rows_daily' # None THEN "read_ytd" ELSE "except"
    /\ l_error' = IF rows_daily' # None THEN l_error ELSE "DatabaseError"
    /\ UNCHANGED load_df
    /\ UNCHANGED <<l_connection, l_exit, config_ok, raw_csv, audit_log,
                   audit_attempts, tdata, yvars, evars, pvars>>

\* [3.2] df_ytd = load_csv_data(input_ytd_path)
Load_main_read_ytd ==
    /\ l_pc = "read_ytd"
    /\ \E read_ok \in BOOLEAN :
          LET result == load_csv_data(ytd_written, read_ok, ytd_file)
          IN  IF result.raised
              THEN /\ load_ytd_df' = load_ytd_df
                   /\ l_pc' = "except"
                   /\ l_error' = result.error
              ELSE load_ytd_df' = result.df /\ l_pc' = "ytd" /\ l_error' = l_error
    /\ UNCHANGED <<fact_fx_rates_ytd, ytd_loads, ytd_loads_returned, rows_ytd>>
    /\ UNCHANGED <<l_connection, l_exit, config_ok, raw_csv, audit_log,
                   audit_attempts, tdata, lvars, evars, pvars>>

\* [3.2] rows_ytd, duration_ytd = load_ytd_metrics(df_ytd, engine, connection)
Load_main_ytd_metrics ==
    /\ l_pc = "ytd"
    /\ ytd_loads' = ytd_loads + 1
    /\ \E fail_at \in {0, 1}, db_ok \in BOOLEAN, transactional \in BOOLEAN :
          load_ytd_metrics(fail_at, db_ok, transactional)
    /\ l_pc' = IF rows_ytd' # None THEN "verify" ELSE "except"
    /\ l_error' = IF rows_ytd' # None THEN l_error ELSE "DatabaseError"
    /\ UNCHANGED load_ytd_df
    /\ UNCHANGED <<l_connection, l_exit, config_ok, raw_csv, audit_log,
                   audit_attempts, tdata, lvars, evars, pvars>>

\* verify_load(connection): four SELECTs, each of which may raise
Load_main_verify_load ==
    /\ l_pc = "verify"
    /\ \E query_ok \in BOOLEAN :
          /\ l_pc' = IF query_ok THEN "success" ELSE "except"
          /\ l_error' = IF query_ok THEN l_error ELSE "DatabaseError"
    /\ UNCHANGED <<l_connection, l_exit, config_ok, raw_csv, audit_log,
                   audit_attempts, tdata, lvars, yvars, evars, pvars>>

\* log success; return 0; finally connection.close(), engine.dispose()
Load_main_return_0 ==
    /\ l_pc = "success"
    /\ \E write_ok \in BOOLEAN :
          /\ audit_attempts' = Append(audit_attempts, <<"load", "success">>)
          /\ IF log_execution_raises(write_ok)
             THEN /\ UNCHANGED <<audit_log, l_exit>>
                  /\ l_error' = "DatabaseError"
                  /\ l_pc' = "except"
             ELSE /\ audit_log' = log_execution(audit_log, "load", "success", write_ok)
                  /\ l_error' = l_error
                  /\ l_exit' = 0
                  /\ l_pc' = "done"
    /\ UNCHANGED <<l_connection, config_ok, raw_csv, tdata, lvars, yvars, evars,
                   pvars>>

\* except Exception: log failed if connection; return 1; finally close
Load_main_return_1 ==
    /\ l_pc = "except"
    /\ \E write_ok \in BOOLEAN :
          /\ audit_log' = IF l_connection
                          THEN log_execution(audit_log, "load", "failed", write_ok)
                          ELSE audit_log
          /\ audit_attempts' = IF l_connection
                               THEN Append(audit_attempts, <<"load", "failed">>)
                               ELSE audit_attempts
    /\ l_exit' = 1
    /\ l_pc' = "done"
    /\ UNCHANGED <<l_connection, l_error, config_ok, raw_csv, tdata, lvars,
                   yvars, evars, pvars>>

----------------------------------------------------------------------------
(* run_pipeline.main: run_step starts each script as a subprocess *)

steps == <<"extract.py", "transform.py", "load.py">>

\* the exit status of the script of step k (NoExit while it has not exited)
ExitOf(k) == <<e_exit, t_exit, l_exit>>[k]

\* run_step: subprocess.run(check=True) raises CalledProcessError on a non-zero
\* return code, and run_step then returns False
run_step_ignores_status(returncode) == TRUE

run_step(returncode) == returncode = 0

\* a row of fact_fx_rates_daily left by an earlier run
StaleDailyTables == {{}, {StoredRow(LoadRow(1, 115), 0)}}

PipelineInit ==
    /\ config_ok = TRUE
    /\ raw_csv = <<>>
    /\ t_pc = "idle"
    /\ t_connection = FALSE
    /\ df_raw = <<>>
    /\ df_cross = <<>>
    /\ df_ytd = <<>>
    /\ cross_file = <<>>
    /\ ytd_file = <<>>
    /\ cross_written = FALSE
    /\ ytd_written = FALSE
    /\ audit_log = <<>>
    /\ audit_attempts = <<>>
    /\ t_error = ""
    /\ t_exit = NoExit
    /\ e_pc = "idle"
    /\ e_connection = FALSE
    /\ e_df = <<>>
    /\ e_error = ""
    /\ e_exit = NoExit
    /\ l_pc = "idle"
    /\ l_connection = FALSE
    /\ l_error = ""
    /\ l_exit = NoExit
    /\ p_step = 1
    /\ p_pc = "loop"
    /\ p_started = <<>>
    /\ p_exit = NoExit
    /\ fact_fx_rates_daily \in StaleDailyTables
    /\ load_df = <<>>
    /\ db_clock = 0
    /\ loads = 0
    /\ loads_returned = 0
    /\ rows_daily = None
    /\ fact_fx_rates_ytd = {}
    /\ load_ytd_df = <<>>
    /\ ytd_loads = 0
    /\ ytd_loads_returned = 0
    /\ rows_ytd = None

\* run_step(script, ...): the script starts as a new process, which loads
\* its configuration from the environment
Pipeline_run_step ==
    /\ p_pc = "loop"
    /\ p_started' = Append(p_started, steps[p_step])
    /\ config_ok' \in BOOLEAN
    /\ e_pc' = IF steps[p_step] = "extract.py" THEN "validate" ELSE e_pc
    /\ t_pc' = IF steps[p_step] = "transform.py" THEN "validate" ELSE t_pc
    /\ l_pc' = IF steps[p_step] = "load.py" THEN "validate" ELSE l_pc
    /\ p_pc' = "waiting"
    /\ UNCHANGED <<p_step, p_exit, raw_csv, audit_log, audit_attempts,
                   t_connection, df_raw, df_cross, df_ytd, cross_file, ytd_file,
                   cross_written, ytd_written, t_error, t_exit, e_connection,
                   e_df, e_error, e_exit, l_connection, l_error, l_exit, lvars,
                   yvars>>

\* success = run_step(...); if not success: sys.exit(1); after the last step
\* main returns and the process exits with status 0
Pipeline_step_exited ==
    /\ p_pc = "waiting"
    /\ ExitOf(p_step) # NoExit
    /\ IF ~run_step(ExitOf(p_step))
       THEN p_exit' = 1 /\ p_pc' = "done" /\ p_step' = p_step
       ELSE IF p_step = Len(steps)
       THEN p_exit' = 0 /\ p_pc' = "done" /\ p_step' = p_step
       ELSE p_exit' = p_exit /\ p_pc' = "loop" /\ p_step' = p_step + 1
    /\ UNCHANGED <<p_started, config_ok, raw_csv, audit_log, audit_attempts,
                   tdata, evars, mvars, lvars, yvars>>

PipelineNext ==
    \/ Pipeline_run_step
    \/ Pipeline_step_exited
    \/ Extract_validate_config
    \/ Extract_connect
    \/ Extract_extract_fx_data
    \/ Extract_save_to_csv
    \/ Extract_return_0
    \/ Extract_return_1
    \/ Transform_validate_config
    \/ Transform_connect
    \/ Transform_load_extracted_data
    \/ Transform_calculate_cross_pairs
    \/ Transform_save_cross
    \/ Transform_calculate_ytd_metrics
    \/ Transform_save_ytd
    \/ Transform_return_0
    \/ Transform_return_1
    \/ Load_main_validate_config
    \/ Load_main_connect
    \/ Load_main_read_cross
    \/ Load_main_daily_rates
    \/ Load_main_read_ytd
    \/ Load_main_ytd_metrics
    \/ Load_main_verify_load
    \/ Load_main_return_0
    \/ Load_main_return_1

SpecPipeline == PipelineInit /\ [][PipelineNext]_vars

----------------------------------------------------------------------------
(* Properties of the Cross-Pair Engine *)

\* calculate_cross_pairs(df_raw) has been called (it returned or raised)
CrossPairsCalled ==
    df_raw # <<>> /\ t_pc \notin {"validate", "connect", "load", "cross"}

InUniverse(c) == \E i \in DOMAIN CURRENCIES : CURRENCIES[i] = c

RawDatesOf(df) == {df[i].rate_date : i \in DOMAIN df} \ {NaT}

\* the currencies of the universe available on date d; EUR always is
Available(df, d) ==
    {c \in Range(CURRENCIES) :
        c = "EUR" \/ \E i \in DOMAIN df :
                        df[i].rate_date = d /\ df[i].quote_currency = c}

CrossRowsAt(d, base, quote) ==
    {i \in DOMAIN df_cross : /\ df_cross[i].rate_date = d
                             /\ df_cross[i].base_currency = base
                             /\ df_cross[i].quote_currency = quote}

NoZeroRate(df) == \A i \in DOMAIN df : df[i].exchange_rate # 0

\* RawRate records: a date, a positive rate
ValidRaw(df) ==
    \A i \in DOMAIN df : df[i].rate_date # NaT /\ df[i].exchange_rate > 0

\* C1: for every date of the input, exactly one row per ordered pair of
\* distinct available currencies of the universe and no other row, so
\* k*(k-1) rows for k available currencies, and never a row with base = quote
C1_ExactlyTheOrderedPairs ==
    (CrossPairsCalled /\ NoZeroRate(df_raw)) =>
        /\ \A d \in RawDatesOf(df_raw) :
              LET avail == Available(df_raw, d)
                  k == Cardinality(avail)
              IN  /\ \A base \in Range(CURRENCIES), quote \in Range(CURRENCIES) :
                        Cardinality(CrossRowsAt(d, base, quote)) =
                            IF base # quote /\ base \in avail /\ quote \in avail
                            THEN 1 ELSE 0
                  /\ Cardinality({i \in DOMAIN df_cross :
                                     df_cross[i].rate_date = d}) = k * (k - 1)
        /\ \A i \in DOMAIN df_cross :
              /\ df_cross[i].rate_date \in RawDatesOf(df_raw)
              /\ InUniverse(df_cross[i].base_currency)
              /\ InUniverse(df_cross[i].quote_currency)
              /\ df_cross[i].base_currency # df_cross[i].quote_currency

\* a date with three available currencies (six rows) next to a date that has a
\* currency outside the universe
C1_Witness ==
    /\ CrossPairsCalled
    /\ NoZeroRate(df_raw)
    /\ Cardinality({i \in DOMAIN df_cross : df_cross[i].rate_date = 20240101}) = 6
    /\ \E i \in DOMAIN df_raw : df_raw[i].quote_currency = "USD"
    /\ \E i \in DOMAIN df_cross : df_cross[i].rate_date = 20241231

\* the EUR-relative rate of currency c on date d, read off the input rows
TableValue(d, c) ==
    IF c = "EUR" THEN RateUnit
    ELSE df_raw[CHOOSE i \in DOMAIN df_raw :
                   df_raw[i].rate_date = d /\ df_raw[i].quote_currency = c
               ].exchange_rate

\* x = round(n / d): x is an integer nearest to n / d
IsRounded(x, n, d) == 2 * Abs(x * d - n) <= d

\* C2: every emitted rate is table[quote] / table[base] rounded to the grid,
\* where table[EUR] = 1.0; so a row (EUR, X) carries the raw rate of X
C2_RateIsQuotientOfTable ==
    CrossPairsCalled =>
        \A i \in DOMAIN df_cross :
            LET row == df_cross[i]
                tb == TableValue(row.rate_date, row.base_currency)
                tq == TableValue(row.rate_date, row.quote_currency)
            IN  /\ (tb = NaN \/ tq = NaN) => row.exchange_rate = NaN
                /\ (tb # NaN /\ tq # NaN) =>
                      /\ row.exchange_rate # NaN
                      /\ IsRounded(row.exchange_rate, RateScale * tq, tb)
                /\ (row.base_currency = "EUR" /\ tq # NaN) =>
                      IsRounded(row.exchange_rate, RateScale * tq, RateUnit)

\* a cross pair of two non-EUR currencies with different rates was emitted
C2_Witness ==
    /\ CrossPairsCalled
    /\ \E i \in DOMAIN df_cross :
          /\ df_cross[i].base_currency = "SEK"
          /\ df_cross[i].quote_currency = "NOK"
          /\ df_cross[i].exchange_rate = 230
    /\ \E i \in DOMAIN df_cross :
          /\ df_cross[i].base_currency = "EUR"
          /\ df_cross[i].quote_currency = "NOK"
          /\ df_cross[i].exchange_rate = 115

\* the rows (date, a, b) and (date, b, a)
Reciprocal(i, j) ==
    /\ df_cross[i].rate_date = df_cross[j].rate_date
    /\ df_cross[i].base_currency = df_cross[j].quote_currency
    /\ df_cross[i].quote_currency = df_cross[j].base_currency

\* C3 as stated: |rate(a,b) * rate(b,a) - 1| <= one grid step (1e-8)
C3_ReciprocalWithinOneStep ==
    (CrossPairsCalled /\ ValidRaw(df_raw)) =>
        \A i \in DOMAIN df_cross, j \in DOMAIN df_cross :
            Reciprocal(i, j) =>
                Abs(df_cross[i].exchange_rate * df_cross[j].exchange_rate
                      - RateScale * RateScale) <= RateScale

\* C3 amended: |rate(a,b) * rate(b,a) - 1| <= one grid step (1e-8) times
\* (rate(a,b) + rate(b,a))
C3_ReciprocalWithinScaledStep ==
    (CrossPairsCalled /\ ValidRaw(df_raw)) =>
        \A i \in DOMAIN df_cross, j \in DOMAIN df_cross :
            Reciprocal(i, j) =>
                Abs(df_cross[i].exchange_rate * df_cross[j].exchange_rate
                      - RateScale * RateScale)
                  <= df_cross[i].exchange_rate + df_cross[j].exchange_rate

\* a reciprocal pair whose product is off by more than one grid step
C3_Witness ==
    /\ CrossPairsCalled
    /\ ValidRaw(df_raw)
    /\ \E i \in DOMAIN df_cross, j \in DOMAIN df_cross :
          /\ Reciprocal(i, j)
          /\ df_cross[i].exchange_rate = 115
          /\ df_cross[j].exchange_rate = 1
----------------------------------------------------------------------------
(* Properties of the transform stage's failure semantics *)

HasNaNRate(csv) == \E i \in DOMAIN csv : csv[i].exchange_rate = NaN

\* C4: an input row with a missing date or a missing rate makes the stage
\* fail: main returns non-zero and no output is produced
C4_MalformedInputIsFatal ==
    (t_pc = "done" /\ (HasNaT(raw_csv) \/ HasNaNRate(raw_csv))) =>
        /\ t_exit = 1
        /\ ~cross_written
        /\ ~ytd_written

----------------------------------------------------------------------------
(* Properties of the YTD Aggregator *)

\* calculate_ytd_metrics(df_cross) has returned df_ytd
YtdComputed == t_pc = "save_ytd"

SamePair(r, m) ==
    /\ r.base_currency = m.base_currency
    /\ r.quote_currency = m.quote_currency

SameKey(r, m) == SamePair(r, m) /\ r.rate_date = m.rate_date

UniqueKeys(df) ==
    \A i \in DOMAIN df, j \in DOMAIN df : SameKey(df[i], df[j]) => i = j

\* C5: one YtdMetric per (date, base, quote) of the input and none for any
\* other key, so as many records as input rows
C5_OneMetricPerInputKey ==
    (YtdComputed /\ UniqueKeys(df_cross)) =>
        /\ Len(df_ytd) = Len(df_cross)
        /\ \A i \in DOMAIN df_cross :
              Cardinality({j \in DOMAIN df_ytd : SameKey(df_cross[i], df_ytd[j])}) = 1
        /\ \A j \in DOMAIN df_ytd :
              \E i \in DOMAIN df_cross : SameKey(df_cross[i], df_ytd[j])

\* metrics computed for an input of several dates and pairs
C5_Witness ==
    /\ YtdComputed
    /\ UniqueKeys(df_cross)
    /\ Len(df_cross) >= 10
    /\ Cardinality({df_cross[i].rate_date : i \in DOMAIN df_cross}) >= 3

\* the CrossRate records of m's pair dated in [Jan 1 of m's year, m's date]
WindowOf(m) ==
    {i \in DOMAIN df_cross : /\ SamePair(df_cross[i], m)
                             /\ Year(df_cross[i].rate_date) = Year(m.rate_date)
                             /\ df_cross[i].rate_date <= m.rate_date}

WindowRates(m) == {df_cross[i].exchange_rate : i \in WindowOf(m)}

RECURSIVE RateSum(_)
RateSum(idx) ==
    IF idx = {} THEN 0
    ELSE LET i == CHOOSE x \in idx : TRUE
         IN  df_cross[i].exchange_rate + RateSum(idx \ {i})

\* C6: the statistics of a YtdMetric are those of the records of the same pair
\* dated from Jan 1 of its year to its own date, and of no other record; on
\* Jan 1 the first rate is the date's own rate
C6_WindowIsYearToDate ==
    YtdComputed =>
        \A j \in DOMAIN df_ytd :
            LET m == df_ytd[j]
                w == WindowOf(m)
            IN  /\ m.ytd_days_count = Cardinality(w)
                /\ \E i \in w :
                      /\ \A k \in w : df_cross[i].rate_date <= df_cross[k].rate_date
                      /\ m.ytd_first_rate = df_cross[i].exchange_rate
                /\ \E i \in w :
                      /\ df_cross[i].rate_date = m.rate_date
                      /\ m.ytd_last_rate = df_cross[i].exchange_rate
                /\ NaN \notin WindowRates(m) =>
                      /\ m.ytd_min_rate \in WindowRates(m)
                      /\ m.ytd_max_rate \in WindowRates(m)
                      /\ \A r \in WindowRates(m) :
                            m.ytd_min_rate <= r /\ r <= m.ytd_max_rate
                      /\ IsRounded(m.ytd_avg_rate, RateSum(w), Cardinality(w))
                /\ m.rate_date = year_start(m.rate_date) =>
                      m.ytd_first_rate = m.ytd_last_rate

\* a Jan 1 metric of a pair that has a different rate on Dec 31 of the year
\* before, and a later metric of the same year whose window has three records
C6_Witness ==
    /\ YtdComputed
    /\ \E j \in DOMAIN df_ytd, i \in DOMAIN df_cross :
          /\ df_ytd[j].rate_date = 20240101
          /\ SamePair(df_cross[i], df_ytd[j])
          /\ df_cross[i].rate_date = 20231231
          /\ df_cross[i].exchange_rate # df_ytd[j].ytd_last_rate
    /\ \E j \in DOMAIN df_ytd :
          /\ df_ytd[j].rate_date = 20241231
          /\ df_ytd[j].ytd_days_count = 3

\* C7: the days count of a Dec 31 metric is the number of distinct dates on
\* which the pair has data in that calendar year
C7_Dec31CountsTheYear ==
    YtdComputed =>
        \A j \in DOMAIN df_ytd :
            IsDec31(df_ytd[j].rate_date) =>
                df_ytd[j].ytd_days_count =
                    Cardinality({df_cross[i].rate_date :
                        i \in {k \in DOMAIN df_cross :
                                 /\ SamePair(df_cross[k], df_ytd[j])
                                 /\ Year(df_cross[k].rate_date)
                                      = Year(df_ytd[j].rate_date)}})

\* a Dec 31 metric of a pair with data on three dates of the year, in an
\* input that also has data of the year before
C7_Witness ==
    /\ YtdComputed
    /\ \E j \in DOMAIN df_ytd :
          /\ df_ytd[j].rate_date = 20241231
          /\ df_ytd[j].ytd_days_count = 3
    /\ \E i \in DOMAIN df_cross : df_cross[i].rate_date = 20231231

\* sum over the window of (N * rate - sum of rates)^2
RECURSIVE WindowSqDev(_, _, _)
WindowSqDev(idx, n, total) ==
    IF idx = {} THEN 0
    ELSE LET i == CHOOSE x \in idx : TRUE
             dev == n * df_cross[i].exchange_rate - total
         IN  dev * dev + WindowSqDev(idx \ {i}, n, total)

\* C8: variance and standard deviation are null when days_count <= 1 and are
\* the non-null sample variance (divisor N - 1) and its square root, rounded,
\* when days_count = N > 1
C8_SampleVarianceOrNull ==
    YtdComputed =>
        \A j \in DOMAIN df_ytd :
            LET m == df_ytd[j]
                w == WindowOf(m)
                n == m.ytd_days_count
                q == WindowSqDev(w, n, RateSum(w))
            IN  NaN \notin WindowRates(m) =>
                  /\ n <= 1 => (m.ytd_variance = None /\ m.ytd_std_dev = None)
                  /\ n > 1 =>
                        /\ m.ytd_variance # None
                        /\ m.ytd_std_dev # None
                        /\ IsRounded(m.ytd_variance, q, n * n * (n - 1) * RateScale)
                        /\ (2 * m.ytd_std_dev - 1) * (2 * m.ytd_std_dev - 1)
                              * n * n * (n - 1) <= 4 * q
                        /\ 4 * q <= (2 * m.ytd_std_dev + 1) * (2 * m.ytd_std_dev + 1)
                              * n * n * (n - 1)

\* C9: change_pct is (last - first) / first * 100 rounded to the percentage
\* grid when the first rate is not 0, and 0 when the first rate is 0
C9_ChangePct ==
    YtdComputed =>
        \A j \in DOMAIN df_ytd :
            LET m == df_ytd[j]
                first == m.ytd_first_rate
                last == m.ytd_last_rate
            IN  /\ first = 0 => m.ytd_change_pct = 0
                /\ (first # 0 /\ first # NaN /\ last # NaN) =>
                      /\ m.ytd_change_pct # NaN
                      /\ IsRounded(m.ytd_change_pct,
                                   100 * PctScale * (last - first), first)

\* a metric whose window starts at rate 0 and ends at a non-zero rate, and a
\* metric with a non-zero change
C9_Witness ==
    /\ YtdComputed
    /\ \E j \in DOMAIN df_ytd :
          /\ df_ytd[j].ytd_first_rate = 0
          /\ df_ytd[j].ytd_last_rate > 0
          /\ df_ytd[j].ytd_change_pct = 0
    /\ \E j \in DOMAIN df_ytd :
          /\ df_ytd[j].ytd_first_rate > 0
          /\ df_ytd[j].ytd_change_pct < 0
----------------------------------------------------------------------------
(* Properties of the Warehouse Sink *)

\* C10: the table never holds two rows of one key, and once a load of the
\* CSV has returned, loading the same CSV again changes neither the set of
\* keys nor the number of rows
C10_ReloadKeepsKeysAndCount ==
    [][ /\ Cardinality(fact_fx_rates_daily') = Cardinality(TableKeys(fact_fx_rates_daily'))
        /\ loads_returned >= 1 =>
              /\ TableKeys(fact_fx_rates_daily') = TableKeys(fact_fx_rates_daily)
              /\ Cardinality(fact_fx_rates_daily') = Cardinality(fact_fx_rates_daily)
      ]_vars

\* a second load returned through the upsert fallback and rewrote rows of a
\* table that also holds a row the CSV does not have
C10_Witness ==
    /\ loads_returned >= 2
    /\ Len(load_df) >= 2
    /\ Cardinality(fact_fx_rates_daily) = 3
    /\ \E r \in fact_fx_rates_daily : r.updated_at = 0
    /\ \E r \in fact_fx_rates_daily : r.updated_at = db_clock

CoveredDates == {load_ytd_df[i].rate_date : i \in DOMAIN load_ytd_df}

\* C11: a call of load_ytd_metrics changes no row whose date is not a date of
\* the input, and a call that returns leaves, for the dates of the input,
\* exactly the input rows (so a call that follows a returned call with the
\* same input changes nothing)
C11_ReplaceOnlyCoveredDates ==
    [][ ytd_loads' = ytd_loads + 1 =>
          /\ {r \in fact_fx_rates_ytd' : r.rate_date \notin CoveredDates}
               = {r \in fact_fx_rates_ytd : r.rate_date \notin CoveredDates}
          /\ ytd_loads_returned' = ytd_loads_returned + 1 =>
                /\ {r \in fact_fx_rates_ytd' : r.rate_date \in CoveredDates}
                     = Range(load_ytd_df)
                /\ rows_ytd # None => fact_fx_rates_ytd' = fact_fx_rates_ytd
      ]_vars

\* a second call returned on a table that keeps a row of an uncovered date and
\* had, before the first call, a covered-date row that the input does not have
C11_Witness ==
    /\ ytd_loads_returned >= 2
    /\ Len(load_ytd_df) >= 2
    /\ \E r \in fact_fx_rates_ytd : r.rate_date \notin CoveredDates
    /\ \E r \in fact_fx_rates_ytd : r.rate_date \in CoveredDates
    /\ Cardinality({r \in fact_fx_rates_ytd : r.ytd_avg_rate = 115}) = 1

----------------------------------------------------------------------------
(* Degenerate inputs of the Cross-Pair Engine *)

\* calculate_cross_pairs(df_raw) has just returned or has just raised
CrossPairsReturned == t_pc = "save_cross"

CrossPairsRaised ==
    t_pc = "except" /\ t_error \in {"KeyError", "ZeroDivisionError"}

FewCurrencies(df, d) == Cardinality(Available(df, d)) < 2

RowsOfDate(df, d) == {i \in DOMAIN df : df[i].rate_date = d}

\* C15: a date with fewer than 2 available currencies of the universe
\* contributes no row and the call still returns normally, with the rows of
\* the other dates; an input made only of such dates, or of no date, gives an
\* empty result and no error
C15_FewCurrenciesGiveNoRowsAndNoError ==
    ((CrossPairsReturned \/ CrossPairsRaised) /\ NoZeroRate(df_raw)) =>
        /\ CrossPairsReturned
        /\ \A d \in RawDatesOf(df_raw) :
              IF FewCurrencies(df_raw, d)
              THEN RowsOfDate(df_cross, d) = {}
              ELSE RowsOfDate(df_cross, d) # {}

ZeroRateDates(df) ==
    {df[i].rate_date : i \in {j \in DOMAIN df :
                                 /\ df[j].rate_date # NaT
                                 /\ InUniverse(df[j].quote_currency)
                                 /\ df[j].exchange_rate = 0}}

\* C16: a raw rate of exactly 0 for a currency of the universe does not abort
\* the call and drops no row: the date still has its k*(k-1) rows
C16_ZeroRateKeepsAllRows ==
    ((CrossPairsReturned \/ CrossPairsRaised) /\ ZeroRateDates(df_raw) # {}) =>
        /\ CrossPairsReturned
        /\ \A d \in ZeroRateDates(df_raw) :
              LET k == Cardinality(Available(df_raw, d))
              IN  Cardinality(RowsOfDate(df_cross, d)) = k * (k - 1)

----------------------------------------------------------------------------
(* Stage output of transform.main *)

\* C14: a run of the transform stage that ends with a non-zero status has
\* written none of its output files
C14_FailedStageWroteNoOutput ==
    (t_pc = "done" /\ t_exit # 0) => (~cross_written /\ ~ytd_written)

----------------------------------------------------------------------------
(* Properties of the stages' error handling *)

\* the step made a call of log_execution whose INSERT failed
AuditWriteFailed ==
    audit_attempts' # audit_attempts /\ audit_log' = audit_log

\* C12: in every stage a failed write of an audit record ('running',
\* 'success' or 'failed') changes nothing of the stage's outcome: the stage goes
\* on to its next step with no exception recorded, and main returns 0 after
\* 'success' and 1 after 'failed', as it does when the write succeeds
C12_AuditFailureKeepsOutcome ==
    [][ AuditWriteFailed =>
          LET a == audit_attempts'[Len(audit_attempts')]
          IN  /\ a = <<"extract", "running">> =>
                    e_pc' = "extract" /\ e_error' = "" /\ e_exit' = NoExit
              /\ a = <<"extract", "success">> =>
                    e_pc' = "done" /\ e_error' = "" /\ e_exit' = 0
              /\ a = <<"extract", "failed">> =>
                    e_pc' = "done" /\ e_error' = e_error /\ e_exit' = 1
              /\ a = <<"transform", "running">> =>
                    t_pc' = "load" /\ t_error' = "" /\ t_exit' = NoExit
              /\ a = <<"transform", "success">> =>
                    t_pc' = "done" /\ t_error' = "" /\ t_exit' = 0
              /\ a = <<"transform", "failed">> =>
                    t_pc' = "done" /\ t_error' = t_error /\ t_exit' = 1
              /\ a = <<"load", "running">> =>
                    l_pc' = "read_cross" /\ l_error' = "" /\ l_exit' = NoExit
              /\ a = <<"load", "success">> =>
                    l_pc' = "done" /\ l_error' = "" /\ l_exit' = 0
              /\ a = <<"load", "failed">> =>
                    l_pc' = "done" /\ l_error' = l_error /\ l_exit' = 1
      ]_vars

\* the three stages connected, every one of their six audit writes failed,
\* and the pipeline still completed with status 0
C12_Witness ==
    /\ p_pc = "done"
    /\ p_exit = 0
    /\ Len(audit_attempts) = 6
    /\ audit_log = <<>>
    /\ fact_fx_rates_daily # {}
    /\ fact_fx_rates_ytd # {}

\* the positions of a stage's main, in the order of its statements
ExtractOrder ==
    <<"idle", "validate", "connect", "extract", "save", "success", "except",
      "done">>

TransformOrder ==
    <<"idle", "validate", "connect", "load", "cross", "save_cross", "ytd",
      "save_ytd", "success", "except", "done">>

LoadOrder ==
    <<"idle", "validate", "connect", "read_cross", "daily", "read_ytd", "ytd",
      "verify", "success", "except", "done">>

Rank(order, pc) == CHOOSE i \in DOMAIN order : order[i] = pc

\* a stage returned 0: every step completed and left its result
ExtractCompleted ==
    /\ e_error = ""
    /\ e_df # <<>>
    /\ raw_csv = e_df

TransformCompleted ==
    /\ t_error = ""
    /\ df_raw = raw_csv
    /\ ~calculate_cross_pairs(df_raw).raised
    /\ df_cross = calculate_cross_pairs(df_raw).rows
    /\ cross_file = df_cross
    /\ df_ytd = calculate_ytd_metrics(df_cross)
    /\ ytd_file = df_ytd

LoadCompleted ==
    /\ l_error = ""
    /\ l_connection
    /\ load_df = cross_file
    /\ loads_returned = 1
    /\ rows_daily = Len(load_df)
    /\ {KeyOf(load_df[i]) : i \in DOMAIN load_df} \subseteq TableKeys(fact_fx_rates_daily)
    /\ load_ytd_df = ytd_file
    /\ ytd_loads_returned = 1
    /\ rows_ytd = Len(load_ytd_df)
    /\ Range(load_ytd_df) \subseteq fact_fx_rates_ytd

\* what holds of a stage whose main caught an exception
Failed(stage, pc, connection, exit) ==
    /\ pc \in {"except", "done"}
    /\ exit \in {NoExit, 1}
    /\ pc = "done" =>
          /\ exit = 1
          /\ connection => <<stage, "failed">> \in Range(audit_attempts)
          /\ <<stage, "success">> \notin Range(audit_log)

StageOutcomes ==
    /\ e_exit = 0 => ExtractCompleted
    /\ t_exit = 0 => TransformCompleted
    /\ l_exit = 0 => LoadCompleted
    /\ e_error # "" => Failed("extract", e_pc, e_connection, e_exit)
    /\ t_error # "" => Failed("transform", t_pc, t_connection, t_exit)
    /\ l_error # "" => Failed("load", l_pc, l_connection, l_exit)
    /\ e_exit = 1 => e_error # ""
    /\ t_exit = 1 => t_error # ""
    /\ l_exit = 1 => l_error # ""

NoRetry ==
    /\ e_pc' # e_pc => Rank(ExtractOrder, e_pc') > Rank(ExtractOrder, e_pc)
    /\ t_pc' # t_pc => Rank(TransformOrder, t_pc') > Rank(TransformOrder, t_pc)
    /\ l_pc' # l_pc => Rank(LoadOrder, l_pc') > Rank(LoadOrder, l_pc)
    /\ loads' <= 1
    /\ ytd_loads' <= 1

\* C13: a stage's main returns 0 only if every step completed, and 1 whenever
\* a step raised; on failure it attempts a 'failed' audit record if it has a
\* connection and records no 'success'; no step is executed a second time
C13_StatusReflectsFailure == []StageOutcomes /\ [][NoRetry]_vars

\* extract and transform returned 0; in load the daily rates were loaded, the
\* YTD load raised, the 'failed' record was written and main returned 1
C13_Witness ==
    /\ e_exit = 0
    /\ t_exit = 0
    /\ l_exit = 1
    /\ l_connection
    /\ loads_returned = 1
    /\ ytd_loads = 1
    /\ rows_ytd = None
    /\ <<"load", "failed">> \in Range(audit_log)

IsPrefix(s, t) ==
    Len(s) <= Len(t) /\ \A i \in DOMAIN s : s[i] = t[i]

\* C17: the stages are started in the order extract, transform, load, each at
\* most once; a stage is started only after every earlier stage exited with
\* status 0; once a stage exits non-zero no later stage is started and the
\* pipeline exits with status 1
C17_StagesInOrderUntilFirstFailure ==
    /\ IsPrefix(p_started, steps)
    /\ \A k \in DOMAIN p_started : \A j \in 1..(k - 1) : ExitOf(j) = 0
    /\ \A k \in DOMAIN steps :
          ExitOf(k) \notin {NoExit, 0} =>
              /\ Len(p_started) = k
              /\ p_exit \in {NoExit, 1}
    /\ p_pc = "done" =>
          /\ p_exit = 1 <=> \E k \in DOMAIN steps : ExitOf(k) \notin {NoExit, 0}
          /\ p_exit = 0 <=> \A k \in DOMAIN steps : ExitOf(k) = 0

\* transform failed after writing the cross-pair CSV: load was never started
\* and the pipeline exited with status 1
C17_Witness ==
    /\ p_pc = "done"
    /\ p_exit = 1
    /\ e_exit = 0
    /\ t_exit = 1
    /\ cross_written
    /\ l_pc = "idle"
    /\ p_started = <<"extract.py", "transform.py">>
====
